---- MODULE Spec2Model ----
(***************************************************************************)
(* Pocket Tanks (Lite): the match controller of pocket_tanks_pi.py, its    *)
(* terrain, shell and tanks, as a state machine.                           *)
(*                                                                         *)
(* Numbers.  The program computes in floating point; the model computes    *)
(* in integers.  Lengths and velocities are in units of 1/UNIT pixel,      *)
(* angles and powers in tenths (the held keys step by 0.8 and 0.4), wind   *)
(* in thousandths, sines and cosines in 1/TRIG.  Values the program keeps  *)
(* as Python ints (tank x, y_ground, crater centres, scores) are exact.    *)
(***************************************************************************)
EXTENDS Integers, Naturals, Sequences, FiniteSets, TLC

\* ---------- Config (lines 27-30) ----------
WIDTH == 960
HEIGHT == 540
UNIT == 50 * 50
GRAVITY == (22 * UNIT) \div 100
WIND_MAX == 180

\* ---------- literals of the methods ----------
BARREL == 18
MUZZLE_UP == 12
TORSO_UP == 10
HIT_RADIUS == 16
BLAST_RADIUS == 24
BLAST_MARGIN == 4
BLAST_BONUS == 40
DIRECT_BONUS == 30
MIN_SKY == 120
BASELINE == (HEIGHT * 65) \div 100
AI_SAMPLES == 10
AI_STEPS == 240
AI_BEST_INIT == 1000000000
ANGLE_MIN == 50
ANGLE_MAX == 850
POWER_MIN == 120
POWER_MAX == 400
ANGLE_STEP == 8
POWER_STEP == 4
TRIG == 100 * 100

\* ---------- arithmetic ----------
Abs(n) == IF n < 0 THEN -n ELSE n

Max(a, b) == IF a >= b THEN a ELSE b

Min(a, b) == IF a <= b THEN a ELSE b

\* Python's int(): truncation toward zero of n/d, d > 0.
Trunc(n, d) == IF n >= 0 THEN n \div d ELSE -((-n) \div d)

\* math.sin of a tenths of a degree, a in 0..900, times TRIG, rounded.
SinT ==
  <<
     0, 17, 35, 52, 70, 87, 105, 122, 140, 157, 175, 192,
     209, 227, 244, 262, 279, 297, 314, 332, 349, 366, 384, 401,
     419, 436, 454, 471, 488, 506, 523, 541, 558, 576, 593, 610,
     628, 645, 663, 680, 698, 715, 732, 750, 767, 785, 802, 819,
     837, 854, 872, 889, 906, 924, 941, 958, 976, 993, 1011, 1028,
     1045, 1063, 1080, 1097, 1115, 1132, 1149, 1167, 1184, 1201, 1219, 1236,
     1253, 1271, 1288, 1305, 1323, 1340, 1357, 1374, 1392, 1409, 1426, 1444,
     1461, 1478, 1495, 1513, 1530, 1547, 1564, 1582, 1599, 1616, 1633, 1650,
     1668, 1685, 1702, 1719, 1736, 1754, 1771, 1788, 1805, 1822, 1840, 1857,
     1874, 1891, 1908, 1925, 1942, 1959, 1977, 1994, 2011, 2028, 2045, 2062,
     2079, 2096, 2113, 2130, 2147, 2164, 2181, 2198, 2215, 2233, 2250, 2267,
     2284, 2300, 2317, 2334, 2351, 2368, 2385, 2402, 2419, 2436, 2453, 2470,
     2487, 2504, 2521, 2538, 2554, 2571, 2588, 2605, 2622, 2639, 2656, 2672,
     2689, 2706, 2723, 2740, 2756, 2773, 2790, 2807, 2823, 2840, 2857, 2874,
     2890, 2907, 2924, 2940, 2957, 2974, 2990, 3007, 3024, 3040, 3057, 3074,
     3090, 3107, 3123, 3140, 3156, 3173, 3190, 3206, 3223, 3239, 3256, 3272,
     3289, 3305, 3322, 3338, 3355, 3371, 3387, 3404, 3420, 3437, 3453, 3469,
     3486, 3502, 3518, 3535, 3551, 3567, 3584, 3600, 3616, 3633, 3649, 3665,
     3681, 3697, 3714, 3730, 3746, 3762, 3778, 3795, 3811, 3827, 3843, 3859,
     3875, 3891, 3907, 3923, 3939, 3955, 3971, 3987, 4003, 4019, 4035, 4051,
     4067, 4083, 4099, 4115, 4131, 4147, 4163, 4179, 4195, 4210, 4226, 4242,
     4258, 4274, 4289, 4305, 4321, 4337, 4352, 4368, 4384, 4399, 4415, 4431,
     4446, 4462, 4478, 4493, 4509, 4524, 4540, 4555, 4571, 4586, 4602, 4617,
     4633, 4648, 4664, 4679, 4695, 4710, 4726, 4741, 4756, 4772, 4787, 4802,
     4818, 4833, 4848, 4863, 4879, 4894, 4909, 4924, 4939, 4955, 4970, 4985,
     5000, 5015, 5030, 5045, 5060, 5075, 5090, 5105, 5120, 5135, 5150, 5165,
     5180, 5195, 5210, 5225, 5240, 5255, 5270, 5284, 5299, 5314, 5329, 5344,
     5358, 5373, 5388, 5402, 5417, 5432, 5446, 5461, 5476, 5490, 5505, 5519,
     5534, 5548, 5563, 5577, 5592, 5606, 5621, 5635, 5650, 5664, 5678, 5693,
     5707, 5721, 5736, 5750, 5764, 5779, 5793, 5807, 5821, 5835, 5850, 5864,
     5878, 5892, 5906, 5920, 5934, 5948, 5962, 5976, 5990, 6004, 6018, 6032,
     6046, 6060, 6074, 6088, 6101, 6115, 6129, 6143, 6157, 6170, 6184, 6198,
     6211, 6225, 6239, 6252, 6266, 6280, 6293, 6307, 6320, 6334, 6347, 6361,
     6374, 6388, 6401, 6414, 6428, 6441, 6455, 6468, 6481, 6494, 6508, 6521,
     6534, 6547, 6561, 6574, 6587, 6600, 6613, 6626, 6639, 6652, 6665, 6678,
     6691, 6704, 6717, 6730, 6743, 6756, 6769, 6782, 6794, 6807, 6820, 6833,
     6845, 6858, 6871, 6884, 6896, 6909, 6921, 6934, 6947, 6959, 6972, 6984,
     6997, 7009, 7022, 7034, 7046, 7059, 7071, 7083, 7096, 7108, 7120, 7133,
     7145, 7157, 7169, 7181, 7193, 7206, 7218, 7230, 7242, 7254, 7266, 7278,
     7290, 7302, 7314, 7325, 7337, 7349, 7361, 7373, 7385, 7396, 7408, 7420,
     7431, 7443, 7455, 7466, 7478, 7490, 7501, 7513, 7524, 7536, 7547, 7559,
     7570, 7581, 7593, 7604, 7615, 7627, 7638, 7649, 7660, 7672, 7683, 7694,
     7705, 7716, 7727, 7738, 7749, 7760, 7771, 7782, 7793, 7804, 7815, 7826,
     7837, 7848, 7859, 7869, 7880, 7891, 7902, 7912, 7923, 7934, 7944, 7955,
     7965, 7976, 7986, 7997, 8007, 8018, 8028, 8039, 8049, 8059, 8070, 8080,
     8090, 8100, 8111, 8121, 8131, 8141, 8151, 8161, 8171, 8181, 8192, 8202,
     8211, 8221, 8231, 8241, 8251, 8261, 8271, 8281, 8290, 8300, 8310, 8320,
     8329, 8339, 8348, 8358, 8368, 8377, 8387, 8396, 8406, 8415, 8425, 8434,
     8443, 8453, 8462, 8471, 8480, 8490, 8499, 8508, 8517, 8526, 8536, 8545,
     8554, 8563, 8572, 8581, 8590, 8599, 8607, 8616, 8625, 8634, 8643, 8652,
     8660, 8669, 8678, 8686, 8695, 8704, 8712, 8721, 8729, 8738, 8746, 8755,
     8763, 8771, 8780, 8788, 8796, 8805, 8813, 8821, 8829, 8838, 8846, 8854,
     8862, 8870, 8878, 8886, 8894, 8902, 8910, 8918, 8926, 8934, 8942, 8949,
     8957, 8965, 8973, 8980, 8988, 8996, 9003, 9011, 9018, 9026, 9033, 9041,
     9048, 9056, 9063, 9070, 9078, 9085, 9092, 9100, 9107, 9114, 9121, 9128,
     9135, 9143, 9150, 9157, 9164, 9171, 9178, 9184, 9191, 9198, 9205, 9212,
     9219, 9225, 9232, 9239, 9245, 9252, 9259, 9265, 9272, 9278, 9285, 9291,
     9298, 9304, 9311, 9317, 9323, 9330, 9336, 9342, 9348, 9354, 9361, 9367,
     9373, 9379, 9385, 9391, 9397, 9403, 9409, 9415, 9421, 9426, 9432, 9438,
     9444, 9449, 9455, 9461, 9466, 9472, 9478, 9483, 9489, 9494, 9500, 9505,
     9511, 9516, 9521, 9527, 9532, 9537, 9542, 9548, 9553, 9558, 9563, 9568,
     9573, 9578, 9583, 9588, 9593, 9598, 9603, 9608, 9613, 9617, 9622, 9627,
     9632, 9636, 9641, 9646, 9650, 9655, 9659, 9664, 9668, 9673, 9677, 9681,
     9686, 9690, 9694, 9699, 9703, 9707, 9711, 9715, 9720, 9724, 9728, 9732,
     9736, 9740, 9744, 9748, 9751, 9755, 9759, 9763, 9767, 9770, 9774, 9778,
     9781, 9785, 9789, 9792, 9796, 9799, 9803, 9806, 9810, 9813, 9816, 9820,
     9823, 9826, 9829, 9833, 9836, 9839, 9842, 9845, 9848, 9851, 9854, 9857,
     9860, 9863, 9866, 9869, 9871, 9874, 9877, 9880, 9882, 9885, 9888, 9890,
     9893, 9895, 9898, 9900, 9903, 9905, 9907, 9910, 9912, 9914, 9917, 9919,
     9921, 9923, 9925, 9928, 9930, 9932, 9934, 9936, 9938, 9940, 9942, 9943,
     9945, 9947, 9949, 9951, 9952, 9954, 9956, 9957, 9959, 9960, 9962, 9963,
     9965, 9966, 9968, 9969, 9971, 9972, 9973, 9974, 9976, 9977, 9978, 9979,
     9980, 9981, 9982, 9983, 9984, 9985, 9986, 9987, 9988, 9989, 9990, 9990,
     9991, 9992, 9993, 9993, 9994, 9995, 9995, 9996, 9996, 9997, 9997, 9997,
     9998, 9998, 9998, 9999, 9999, 9999, 9999, 10000, 10000, 10000, 10000, 10000,
     10000
  >>

Sin10(a) == SinT[a + 1]

Cos10(a) == SinT[(900 - a) + 1]

\* Terrain.generate's hill at column x before jitter,
\*   sin(x*0.008)*30 + sin(x*0.022 + 1.3)*20 + sin(x*0.0045 + 2.0)*45,
\* in thousandths, rounded; column x is entry x + 1.
HillT ==
  <<
     60190, 60458, 60716, 60964, 61201, 61428, 61645, 61851, 62047, 62232, 62406, 62570,
     62723, 62866, 62997, 63118, 63229, 63329, 63418, 63496, 63564, 63621, 63667, 63703,
     63728, 63743, 63747, 63741, 63725, 63698, 63661, 63614, 63556, 63489, 63412, 63325,
     63228, 63121, 63005, 62879, 62744, 62599, 62446, 62283, 62111, 61931, 61742, 61544,
     61338, 61123, 60901, 60670, 60432, 60186, 59932, 59671, 59402, 59127, 58844, 58555,
     58260, 57957, 57649, 57335, 57014, 56688, 56357, 56020, 55678, 55331, 54980, 54623,
     54263, 53898, 53529, 53157, 52781, 52401, 52018, 51633, 51244, 50853, 50460, 50064,
     49667, 49268, 48867, 48465, 48061, 47657, 47252, 46846, 46440, 46034, 45628, 45222,
     44817, 44412, 44009, 43606, 43204, 42804, 42406, 42009, 41615, 41222, 40832, 40445,
     40060, 39678, 39300, 38924, 38552, 38184, 37819, 37458, 37101, 36749, 36401, 36058,
     35719, 35385, 35056, 34732, 34414, 34101, 33793, 33491, 33195, 32904, 32620, 32342,
     32070, 31804, 31545, 31292, 31046, 30806, 30573, 30347, 30128, 29916, 29711, 29513,
     29322, 29139, 28962, 28793, 28632, 28477, 28330, 28191, 28059, 27934, 27817, 27707,
     27605, 27510, 27423, 27343, 27271, 27206, 27148, 27098, 27055, 27019, 26991, 26970,
     26956, 26949, 26949, 26956, 26969, 26990, 27017, 27051, 27092, 27139, 27192, 27252,
     27318, 27390, 27468, 27552, 27641, 27736, 27837, 27942, 28054, 28170, 28291, 28417,
     28547, 28682, 28821, 28965, 29112, 29264, 29419, 29578, 29740, 29905, 30073, 30244,
     30418, 30594, 30773, 30953, 31136, 31320, 31506, 31693, 31882, 32071, 32261, 32452,
     32643, 32834, 33025, 33216, 33406, 33596, 33785, 33973, 34160, 34345, 34528, 34710,
     34890, 35067, 35242, 35414, 35583, 35749, 35912, 36072, 36227, 36379, 36527, 36670,
     36809, 36943, 37072, 37196, 37315, 37429, 37537, 37639, 37735, 37824, 37908, 37985,
     38055, 38118, 38174, 38223, 38265, 38299, 38325, 38344, 38354, 38357, 38351, 38336,
     38314, 38282, 38241, 38192, 38133, 38065, 37988, 37902, 37806, 37700, 37584, 37459,
     37324, 37178, 37023, 36857, 36681, 36495, 36298, 36091, 35874, 35646, 35407, 35157,
     34897, 34626, 34344, 34052, 33749, 33434, 33109, 32774, 32427, 32070, 31701, 31322,
     30932, 30531, 30120, 29698, 29265, 28821, 28367, 27903, 27428, 26942, 26446, 25940,
     25423, 24897, 24360, 23814, 23257, 22691, 22115, 21530, 20935, 20330, 19717, 19094,
     18463, 17822, 17173, 16515, 15849, 15175, 14492, 13802, 13103, 12397, 11684, 10963,
     10235, 9500, 8758, 8010, 7255, 6494, 5726, 4953, 4174, 3390, 2601, 1806,
     1006, 202, -606, -1419, -2236, -3057, -3881, -4709, -5540, -6374, -7210, -8050,
     -8891, -9734, -10579, -11426, -12274, -13124, -13974, -14825, -15676, -16528, -17379, -18230,
     -19081, -19931, -20780, -21628, -22474, -23319, -24162, -25003, -25842, -26678, -27511, -28341,
     -29168, -29992, -30812, -31628, -32439, -33247, -34050, -34848, -35642, -36430, -37213, -37990,
     -38762, -39527, -40287, -41040, -41786, -42526, -43259, -43985, -44703, -45415, -46118, -46814,
     -47502, -48181, -48853, -49516, -50170, -50816, -51453, -52081, -52700, -53310, -53910, -54501,
     -55082, -55653, -56215, -56766, -57308, -57839, -58360, -58871, -59372, -59862, -60341, -60810,
     -61268, -61715, -62152, -62578, -62993, -63396, -63789, -64171, -64542, -64902, -65250, -65588,
     -65914, -66230, -66534, -66827, -67109, -67380, -67640, -67889, -68127, -68354, -68570, -68775,
     -68969, -69152, -69325, -69487, -69639, -69780, -69910, -70030, -70140, -70239, -70329, -70408,
     -70478, -70537, -70587, -70628, -70659, -70680, -70692, -70695, -70690, -70675, -70651, -70619,
     -70579, -70530, -70473, -70408, -70335, -70255, -70167, -70072, -69969, -69860, -69744, -69621,
     -69491, -69355, -69213, -69065, -68912, -68753, -68588, -68418, -68243, -68064, -67879, -67691,
     -67498, -67301, -67100, -66895, -66688, -66477, -66262, -66045, -65826, -65604, -65380, -65153,
     -64925, -64696, -64464, -64232, -63999, -63765, -63530, -63295, -63059, -62824, -62589, -62354,
     -62120, -61886, -61653, -61422, -61192, -60963, -60736, -60511, -60289, -60068, -59850, -59634,
     -59421, -59211, -59004, -58800, -58600, -58403, -58210, -58021, -57836, -57655, -57479, -57306,
     -57139, -56976, -56818, -56665, -56517, -56374, -56237, -56105, -55979, -55858, -55743, -55634,
     -55531, -55434, -55343, -55258, -55179, -55107, -55041, -54982, -54929, -54882, -54843, -54810,
     -54783, -54764, -54751, -54745, -54745, -54753, -54767, -54788, -54817, -54852, -54893, -54942,
     -54997, -55060, -55129, -55205, -55287, -55376, -55472, -55574, -55683, -55799, -55921, -56049,
     -56184, -56324, -56471, -56624, -56783, -56948, -57119, -57295, -57477, -57665, -57858, -58056,
     -58259, -58467, -58681, -58899, -59121, -59349, -59580, -59816, -60056, -60300, -60548, -60799,
     -61054, -61312, -61574, -61838, -62105, -62375, -62648, -62922, -63199, -63478, -63759, -64041,
     -64324, -64609, -64895, -65182, -65469, -65757, -66045, -66333, -66621, -66909, -67196, -67482,
     -67768, -68052, -68335, -68617, -68896, -69174, -69450, -69723, -69994, -70262, -70527, -70788,
     -71047, -71302, -71553, -71800, -72042, -72281, -72515, -72744, -72968, -73187, -73400, -73608,
     -73811, -74007, -74197, -74381, -74559, -74729, -74893, -75050, -75200, -75342, -75477, -75604,
     -75723, -75835, -75938, -76032, -76118, -76196, -76265, -76325, -76375, -76417, -76449, -76472,
     -76485, -76489, -76483, -76467, -76440, -76404, -76357, -76300, -76233, -76155, -76067, -75967,
     -75858, -75737, -75605, -75462, -75309, -75144, -74968, -74781, -74583, -74374, -74153, -73921,
     -73678, -73423, -73157, -72880, -72591, -72291, -71979, -71657, -71323, -70977, -70621, -70253,
     -69874, -69483, -69082, -68670, -68246, -67812, -67367, -66911, -66444, -65966, -65478, -64980,
     -64471, -63951, -63422, -62882, -62333, -61773, -61204, -60625, -60037, -59439, -58832, -58215,
     -57590, -56956, -56314, -55662, -55003, -54335, -53659, -52975, -52283, -51584, -50878, -50164,
     -49444, -48716, -47982, -47242, -46495, -45742, -44983, -44219, -43449, -42674, -41894, -41109,
     -40320, -39526, -38728, -37926, -37120, -36310, -35498, -34682, -33864, -33042, -32219, -31393,
     -30566, -29736, -28905, -28073, -27240, -26406, -25572, -24737, -23902, -23067, -22233, -21399,
     -20566, -19734, -18904, -18075, -17247, -16422, -15599, -14778, -13960, -13145, -12332, -11523,
     -10718, -9916, -9119, -8325, -7536, -6751, -5972, -5197, -4427, -3663, -2904, -2151,
     -1404, -664, 71, 799, 1520, 2235, 2942, 3642, 4335, 5020, 5698, 6368,
     7030, 7683, 8329, 8966, 9594, 10214, 10825, 11427, 12020, 12603, 13178, 13743,
     14299, 14845, 15381, 15908, 16424, 16931, 17428, 17915, 18391, 18858, 19314, 19760,
     20195, 20621, 21035, 21439, 21833, 22216, 22589, 22951, 23303, 23644, 23974, 24294,
     24603, 24902, 25190, 25468, 25735, 25992, 26239, 26475, 26700, 26916, 27121, 27317,
     27502, 27677, 27842, 27997, 28143, 28279, 28405, 28522, 28630, 28728, 28817, 28897,
     28967, 29029, 29083, 29128, 29164, 29192, 29212, 29223, 29227, 29223, 29212, 29193,
     29166, 29133, 29092, 29045, 28991, 28931, 28864, 28791, 28712, 28628, 28537, 28442,
     28341, 28235, 28124, 28009, 27889, 27765, 27636, 27504, 27368, 27229, 27087, 26941,
     26792, 26641, 26487, 26331, 26173, 26013, 25851, 25688, 25524, 25358, 25192, 25025,
     24858, 24690, 24523, 24355, 24188, 24021, 23855, 23690, 23527, 23364, 23203, 23044
  >>

\* ---------- bounds of the exploration ----------
\* spawn_shell calls in a run
MaxShots == 2
\* handle_input calls that change an aim in a run
MaxAimChanges == 1

\* random.uniform(-WIND_MAX, WIND_MAX): the draws explored
Winds == {-WIND_MAX, WIND_MAX}

\* random.uniform(-6, 6), drawn for each column in generate (line 92): the
\* draws explored are those in which all columns of a skyline draw the same
\* value, one of these
Jitters == {-6, 6}

\* random.uniform(30, 80) and random.uniform(24, 30) in simple_ai_fire:
\* the draws explored (tenths)
AIAngles == {300, 800}

AIPowers == {240, 300}

\* The fields of Game (lines 126-136): terrain, wind, p1, p2, turn, shell,
\* ai_for_p2, scores.  Bookkeeping of the exploration, read by no operation
\* except the two bounds: last (what the update that resolved the latest
\* shell did), shots (spawn_shell calls so far), aimChanges (handle_input
\* calls so far that moved an aim).
VARIABLES terrain, wind, p1, p2, turn, shell, ai_for_p2, scores,
          last, shots, aimChanges

vars == <<terrain, wind, p1, p2, turn, shell, ai_for_p2, scores,
          last, shots, aimChanges>>

\* self.shell = None
NoShell == [x |-> 0, y |-> 0, vx |-> 0, vy |-> 0, alive |-> FALSE, none |-> TRUE]

\* ---------- Terrain ----------
\* The surface after generate() with jitter j and the craters carved since:
\* a cell is solid when its alpha is > 0.

\* generate(): the skyline row of column x for jitter j (lines 86-94)
SkyY(j, x) ==
  LET h == HillT[x + 1] + 1000 * j
      y == BASELINE - Trunc(h, 1000)
  IN  Max(MIN_SKY, Min(HEIGHT - 1, y))

\* generate(): a fresh surface, crater history discarded (lines 84-96)
generate(j) == [jit |-> j, craters |-> {}]

\* pygame.draw.circle with a transparent colour: the disc of the radius
InCrater(c, x, y) ==
  (x - c[1]) * (x - c[1]) + (y - c[2]) * (y - c[2]) <= c[3] * c[3]

\* surface.get_at((x, y)).a > 0
Solid(t, x, y) ==
  /\ y >= SkyY(t.jit, x)
  /\ \A c \in t.craters : ~InCrater(c, x, y)

\* a faulty destroy: the surface is redrawn from the skyline before the new
\* disc is carved, so earlier craters fill up again
destroy_refills(t, x, y, radius) == [t EXCEPT !.craters = {<<x, y, radius>>}]

\* Terrain.destroy (lines 98-99)
destroy(t, x, y, radius) == [t EXCEPT !.craters = @ \cup {<<x, y, radius>>}]

\* Terrain.ground_y_at (lines 101-106): the first solid row from the top.
\* No row above the skyline is solid, so the scan starts at the skyline.
ground_y_at(t, x0) ==
  LET x == Max(0, Min(WIDTH - 1, x0))
      sky == SkyY(t.jit, x)
      Carved(y) == \E c \in t.craters : InCrater(c, x, y)
  IN  CHOOSE y \in sky..HEIGHT :
        /\ y = HEIGHT \/ ~Carved(y)
        /\ \A z \in sky..(y - 1) : Carved(z)

\* Terrain.collides (lines 108-111)
collides(t, x, y) ==
  IF x < 0 \/ x >= WIDTH \/ y < 0 \/ y >= HEIGHT
  THEN FALSE
  ELSE Solid(t, x, y)

\* ---------- Shell ----------
\* a step that leaves the shell where it is: lines 69-74 without effect
step_frozen(s, w) == s

\* Shell.step (lines 68-74)
step(s, w) ==
  LET x == s.x + s.vx
      y == s.y + s.vy
  IN  [x |-> x, y |-> y,
       vx |-> s.vx + Trunc(w * 2 * UNIT, 100 * 1000),
       vy |-> s.vy + GRAVITY,
       alive |-> IF x < -20 * UNIT \/ x > (WIDTH + 20) * UNIT
                    \/ y > (HEIGHT + 40) * UNIT
                 THEN FALSE ELSE s.alive,
       none |-> FALSE]

\* ---------- Tank ----------
\* Tank(...) of lines 129-130, before tank_positions_on_ground
Tank(x, facing) ==
  [x |-> x, angle |-> 450, power |-> 280, alive |-> TRUE, facing |-> facing,
   y_ground |-> 0]

\* Game.tank_positions_on_ground for one tank (lines 138-140)
OnGround(t, terr) == [t EXCEPT !.y_ground = ground_y_at(terr, t.x)]

\* Game.spawn_shell (lines 151-158): the shell a tank fires
spawn_shell(tank) ==
  LET c == tank.facing * Cos10(tank.angle)
      s == Sin10(tank.angle)
      speed == (tank.power * 8 * UNIT) \div 100
  IN  [x |-> tank.x * UNIT + Trunc(c * BARREL * UNIT, TRIG),
       y |-> (tank.y_ground - MUZZLE_UP) * UNIT - Trunc(s * BARREL * UNIT, TRIG),
       vx |-> Trunc(c * speed, TRIG),
       vy |-> -Trunc(s * speed, TRIG),
       alive |-> TRUE,
       none |-> FALSE]

\* ---------- Game ----------
Sides == {1, 2}

\* a faulty line 176: the turn stays with the side that fired
NextTurnStuck(t) == t

\* self.turn = 2 if self.turn == 1 else 1 (line 176)
NextTurn(t) == IF t = 1 THEN 2 ELSE 1

\* scores index of line 172: the side credited when the tank of side h is hit
Credited(h) == IF h = 2 THEN 1 ELSE 2

\* squared distance from a tank's torso point to the cell (x, y) (line 187)
TorsoD2(t, x, y) ==
  (t.x - x) * (t.x - x)
    + ((t.y_ground - TORSO_UP) - y) * ((t.y_ground - TORSO_UP) - y)

\* int(40 * (1.0 - d / (radius + 4))) for d = sqrt(d2) < radius + 4 (line 190):
\* the largest b with b <= 40 * (1 - d / 28)
BlastBonus(d2) ==
  LET reach == BLAST_RADIUS + BLAST_MARGIN
  IN  CHOOSE b \in 0..BLAST_BONUS :
        /\ BLAST_BONUS * BLAST_BONUS * d2
             <= reach * reach * (BLAST_BONUS - b) * (BLAST_BONUS - b)
        /\ \A c \in (b + 1)..BLAST_BONUS :
             BLAST_BONUS * BLAST_BONUS * d2
               > reach * reach * (BLAST_BONUS - c) * (BLAST_BONUS - c)

\* a faulty line 189: the side test dropped, so either tank in reach scores
BlastGainAnyTank(i, d2) ==
  LET reach == BLAST_RADIUS + BLAST_MARGIN
  IN  IF d2 < reach * reach THEN BlastBonus(d2) ELSE 0

\* the score explode adds for tank i (0: p1, 1: p2) at squared distance d2
\* (lines 188-190)
BlastGain(i, d2) ==
  LET reach == BLAST_RADIUS + BLAST_MARGIN
  IN  IF d2 < reach * reach
         /\ ((turn = 1 /\ i = 1) \/ (turn = 2 /\ i = 0))
      THEN BlastBonus(d2)
      ELSE 0

\* Game.explode (lines 183-190) on the terrain and scores g of the running
\* update; g.blasts logs each call
explode(g, x, y) ==
  LET d1 == TorsoD2(p1, x, y)
      d2 == TorsoD2(p2, x, y)
      gain == BlastGain(0, d1) + BlastGain(1, d2)
      sc == [g.scores EXCEPT ![turn] = @ + gain]
  IN  [terrain |-> destroy(g.terrain, x, y, BLAST_RADIUS),
       scores |-> sc,
       blasts |-> Append(g.blasts,
                   [x |-> x, y |-> y, by |-> turn, d2 |-> <<d1, d2>>,
                    gain |-> <<sc[1] - g.scores[1], sc[2] - g.scores[2]>>])]

\* math.hypot(t.x - shell.x, (t.y_ground - 10) - shell.y) < 16 (lines 169-170)
Near(t, s) ==
  LET dx == t.x * UNIT - s.x
      dy == (t.y_ground - TORSO_UP) * UNIT - s.y
      r == HIT_RADIUS * UNIT
  IN  /\ Abs(dx) < r
      /\ Abs(dy) < r
      /\ dx * dx < r * r - dy * dy

\* the loop of lines 167-174: the side of the first living tank the shell is
\* near, 0 when none
FirstNear(s) ==
  IF p1.alive /\ Near(p1, s) THEN 1
  ELSE IF p2.alive /\ Near(p2, s) THEN 2
  ELSE 0

\* what the update that resolved the latest shell did, kept for the
\* properties below: no part of the program
NoLog ==
  [by |-> 0, terrainHit |-> FALSE, direct |-> 0, bonusTo |-> 0,
   blasts |-> <<>>]

\* ---------- simple_ai_fire ----------
\* The simulation loop of lines 203-211.  Each pass adds the velocity to the
\* position and a constant to the velocity, so after n passes from (x, y)
\* with (vx, vy) the position is the arithmetic sum AIPos gives; the loop
\* ends at the first pass whose position breaks, or after AI_STEPS passes.
AIPos(p, v, acc, n) == p + n * v + acc * ((n * (n - 1)) \div 2)

\* lines 208-211: the pass that ends at (x, y) breaks
AIBreaks(x, y) ==
  \/ y >= HEIGHT * UNIT
  \/ x < 0
  \/ x > WIDTH * UNIT
  \/ y >= ground_y_at(terrain, Trunc(x, UNIT)) * UNIT

\* lines 199-212: the distance d of candidate angle ang at the shared power,
\* in length units
AIDist(ang, power) ==
  LET speed == (power * 8 * UNIT) \div 100
      vx == Trunc(-Cos10(ang) * speed, TRIG)
      vy == -Trunc(Sin10(ang) * speed, TRIG)
      ax == Trunc(wind * 2 * UNIT, 100 * 1000)
      X(n) == AIPos(p2.x * UNIT, vx, ax, n)
      Y(n) == AIPos((p2.y_ground - MUZZLE_UP) * UNIT, vy, GRAVITY, n)
      last_n == CHOOSE n \in 1..AI_STEPS :
                  /\ n = AI_STEPS \/ AIBreaks(X(n), Y(n))
                  /\ \A m \in 1..(n - 1) : ~AIBreaks(X(m), Y(m))
  IN  Abs(X(last_n) - p1.x * UNIT)

\* a faulty line 195: best_dist starts at 0, so no candidate is ever closer
RECURSIVE AIPickFromZero(_, _, _, _)
AIPickFromZero(cands, dist, i, best) ==
  IF i > Len(cands) THEN best
  ELSE LET d == (CHOOSE p \in dist : p[1] = cands[i])[2]
       IN  IF d < best.dist
           THEN AIPickFromZero(cands, dist, i + 1,
                               [angle |-> cands[i], dist |-> d])
           ELSE AIPickFromZero(cands, dist, i + 1, best)

\* a faulty line 213: the comparison turned round, so the farthest landing
\* wins
RECURSIVE AIPickFarthest(_, _, _, _)
AIPickFarthest(cands, dist, i, best) ==
  IF i > Len(cands) THEN best
  ELSE LET d == (CHOOSE p \in dist : p[1] = cands[i])[2]
       IN  IF best.angle = 0 \/ d > best.dist
           THEN AIPickFarthest(cands, dist, i + 1,
                               [angle |-> cands[i], dist |-> d])
           ELSE AIPickFarthest(cands, dist, i + 1, best)

\* lines 194-215: the loop over the candidates from i on; dist pairs each
\* sampled angle with its d; best is
\* [angle, dist], angle 0 standing for best_angle None, when best_dist is
\* still 1e9 pixels
RECURSIVE AIPick(_, _, _, _)
AIPick(cands, dist, i, best) ==
  IF i > Len(cands) THEN best
  ELSE LET d == (CHOOSE p \in dist : p[1] = cands[i])[2]
           less == IF best.angle = 0
                   THEN d \div UNIT < AI_BEST_INIT
                   ELSE d < best.dist
       IN  IF less
           THEN AIPick(cands, dist, i + 1, [angle |-> cands[i], dist |-> d])
           ELSE AIPick(cands, dist, i + 1, best)

\* a faulty line 219: the AI spawns the shell from side 1's tank
simple_ai_fire_wrong_tank ==
  \E power \in AIPowers :
    \E dist \in {{<<a, AIDist(a, power)>> : a \in AIAngles}} :
      \E cands \in [1..AI_SAMPLES -> AIAngles] :
        LET best == AIPick(cands, dist, 1, [angle |-> 0, dist |-> 0])
        IN  IF best.angle # 0
            THEN /\ p2' = [p2 EXCEPT !.angle = best.angle, !.power = power]
                 /\ shell' = spawn_shell(p1)
                 /\ shots' = shots + 1
            ELSE UNCHANGED <<p2, shell, shots>>

\* Game.simple_ai_fire (lines 192-219)
simple_ai_fire ==
  \E power \in AIPowers :
    \E dist \in {{<<a, AIDist(a, power)>> : a \in AIAngles}} :
      \E cands \in [1..AI_SAMPLES -> AIAngles] :
        LET best == AIPick(cands, dist, 1, [angle |-> 0, dist |-> 0])
        IN  IF best.angle # 0
            THEN /\ p2' = [p2 EXCEPT !.angle = best.angle, !.power = power]
                 /\ shell' = spawn_shell(p2')
                 /\ shots' = shots + 1
            ELSE UNCHANGED <<p2, shell, shots>>

\* a faulty reset_round: the new match also clears the scores
reset_round_clears_scores(regen_terrain) ==
  /\ \E j \in Jitters :
       terrain' = IF regen_terrain THEN generate(j) ELSE terrain
  /\ wind' \in Winds
  /\ shell' = NoShell
  /\ p1' = OnGround([p1 EXCEPT !.alive = TRUE], terrain')
  /\ p2' = OnGround([p2 EXCEPT !.alive = TRUE], terrain')
  /\ turn' = 1
  /\ scores' = <<0, 0>>

\* a faulty reset_round: line 149 missing, the turn is kept
reset_round_keeps_turn(regen_terrain) ==
  /\ \E j \in Jitters :
       terrain' = IF regen_terrain THEN generate(j) ELSE terrain
  /\ wind' \in Winds
  /\ shell' = NoShell
  /\ p1' = OnGround([p1 EXCEPT !.alive = TRUE], terrain')
  /\ p2' = OnGround([p2 EXCEPT !.alive = TRUE], terrain')
  /\ UNCHANGED turn
  /\ UNCHANGED scores

\* a faulty reset_round: line 148 missing, the tanks keep their old rows
reset_round_no_reposition(regen_terrain) ==
  /\ \E j \in Jitters :
       terrain' = IF regen_terrain THEN generate(j) ELSE terrain
  /\ wind' \in Winds
  /\ shell' = NoShell
  /\ p1' = [p1 EXCEPT !.alive = TRUE]
  /\ p2' = [p2 EXCEPT !.alive = TRUE]
  /\ turn' = 1
  /\ UNCHANGED scores

\* Game.reset_round (lines 142-149); it leaves the scores alone
reset_round(regen_terrain) ==
  /\ \E j \in Jitters :
       terrain' = IF regen_terrain THEN generate(j) ELSE terrain
  /\ wind' \in Winds
  /\ shell' = NoShell
  /\ p1' = OnGround([p1 EXCEPT !.alive = TRUE], terrain')
  /\ p2' = OnGround([p2 EXCEPT !.alive = TRUE], terrain')
  /\ turn' = 1
  /\ UNCHANGED scores

\* a faulty K_r branch: line 254 missing, the tanks keep their old rows
regen_terrain_no_reposition ==
  /\ \E j \in Jitters : terrain' = generate(j)
  /\ UNCHANGED <<p1, p2>>

\* the K_r branch of handle_event (lines 252-254)
regen_terrain_only ==
  /\ \E j \in Jitters : terrain' = generate(j)
  /\ p1' = OnGround(p1, terrain')
  /\ p2' = OnGround(p2, terrain')

\* faulty guards of lines 257 and 259: the shell test, or the turn test,
\* dropped
CanFireOverShell(s) == turn = s

CanFireOutOfTurn(s) == shell.none

\* the guards of lines 257 and 259: the fire key of side s spawns a shell
CanFire(s) == turn = s /\ shell.none

\* ---------- the state after construction (lines 118-136) ----------
\* The constructor sets both aims to angle 45, power 28.  The runs explored
\* start where a match stands once the held keys have moved the aims (angle
\* in steps of 0.8, power in steps of 0.4) and the N key has begun a new
\* match, before a point is scored: side 1's turn, no shell, fresh terrain
\* and wind, scores 0:0.  P1Aims and P2Aims are the aims reached: 8.2 degrees
\* at power 24.4 is 46 presses of K_LEFT and 9 of K_DOWN from 45/28; 85
\* degrees at power 12 is 50 ticks of K_a and 40 of K_s.
P1Aims == {<<82, 244>>}

P2Aims == {<<850, 120>>}

Init ==
  /\ terrain \in {generate(j) : j \in Jitters}
  /\ wind \in Winds
  /\ \E a \in P1Aims :
       p1 = OnGround([Tank((WIDTH * 12) \div 100, 1)
                        EXCEPT !.angle = a[1], !.power = a[2]], terrain)
  /\ \E a \in P2Aims :
       p2 = OnGround([Tank((WIDTH * 88) \div 100, -1)
                        EXCEPT !.angle = a[1], !.power = a[2]], terrain)
  /\ turn = 1
  /\ shell = NoShell
  /\ ai_for_p2 \in BOOLEAN
  /\ scores = <<0, 0>>
  /\ last = NoLog
  /\ shots = 0
  /\ aimChanges = 0

\* a faulty update: line 177 missing, the dead shell stays in the slot
update_keeps_dead_shell ==
  IF ~shell.none /\ shell.alive
  THEN LET s == step(shell, wind)
           ix == Trunc(s.x, UNIT)
           iy == Trunc(s.y, UNIT)
           hitT == /\ 0 <= ix /\ ix < WIDTH /\ 0 <= iy /\ iy < HEIGHT
                   /\ collides(terrain, ix, iy)
           g0 == [terrain |-> terrain, scores |-> scores, blasts |-> <<>>]
           g1 == IF hitT THEN explode(g0, ix, iy) ELSE g0
           near == FirstNear(s)
           g2 == IF near # 0
                 THEN [explode(g1, ix, iy)
                         EXCEPT !.scores[Credited(near)] = @ + DIRECT_BONUS]
                 ELSE g1
           alive == s.alive /\ ~hitT /\ near = 0
       IN  /\ terrain' = g2.terrain
           /\ scores' = g2.scores
           /\ IF ~alive
              THEN /\ turn' = NextTurn(turn)
                   /\ shell' = [s EXCEPT !.alive = FALSE]
                   /\ p1' = OnGround(p1, terrain')
                   /\ p2' = OnGround(p2, terrain')
                   /\ last' = [by |-> turn, terrainHit |-> hitT,
                               direct |-> near,
                               bonusTo |-> IF near # 0 THEN Credited(near)
                                           ELSE 0,
                               blasts |-> g2.blasts]
              ELSE /\ shell' = s
                   /\ UNCHANGED <<turn, p1, p2, last>>
           /\ UNCHANGED <<wind, ai_for_p2, shots, aimChanges>>
  ELSE /\ IF ai_for_p2 /\ turn = 2
          THEN shots < MaxShots /\ simple_ai_fire
          ELSE UNCHANGED <<p2, shell, shots>>
       /\ UNCHANGED <<terrain, wind, p1, turn, ai_for_p2, scores, last,
                      aimChanges>>

\* a faulty update: a direct hit marks the tank it hit dead
update_kills_hit_tank ==
  IF ~shell.none /\ shell.alive
  THEN LET s == step(shell, wind)
           ix == Trunc(s.x, UNIT)
           iy == Trunc(s.y, UNIT)
           hitT == /\ 0 <= ix /\ ix < WIDTH /\ 0 <= iy /\ iy < HEIGHT
                   /\ collides(terrain, ix, iy)
           g0 == [terrain |-> terrain, scores |-> scores, blasts |-> <<>>]
           g1 == IF hitT THEN explode(g0, ix, iy) ELSE g0
           near == FirstNear(s)
           g2 == IF near # 0
                 THEN [explode(g1, ix, iy)
                         EXCEPT !.scores[Credited(near)] = @ + DIRECT_BONUS]
                 ELSE g1
           alive == s.alive /\ ~hitT /\ near = 0
       IN  /\ terrain' = g2.terrain
           /\ scores' = g2.scores
           /\ IF ~alive
              THEN /\ turn' = NextTurn(turn)
                   /\ shell' = NoShell
                   /\ p1' = OnGround([p1 EXCEPT !.alive = near # 1], terrain')
                   /\ p2' = OnGround([p2 EXCEPT !.alive = near # 2], terrain')
                   /\ last' = [by |-> turn, terrainHit |-> hitT,
                               direct |-> near,
                               bonusTo |-> IF near # 0 THEN Credited(near)
                                           ELSE 0,
                               blasts |-> g2.blasts]
              ELSE /\ shell' = s
                   /\ UNCHANGED <<turn, p1, p2, last>>
           /\ UNCHANGED <<wind, ai_for_p2, shots, aimChanges>>
  ELSE /\ IF ai_for_p2 /\ turn = 2
          THEN shots < MaxShots /\ simple_ai_fire
          ELSE UNCHANGED <<p2, shell, shots>>
       /\ UNCHANGED <<terrain, wind, p1, turn, ai_for_p2, scores, last,
                      aimChanges>>

\* ---------- Game.update (lines 160-181) ----------
update ==
  IF ~shell.none /\ shell.alive
  THEN LET s == step(shell, wind)
           ix == Trunc(s.x, UNIT)
           iy == Trunc(s.y, UNIT)
           hitT == /\ 0 <= ix /\ ix < WIDTH /\ 0 <= iy /\ iy < HEIGHT
                   /\ collides(terrain, ix, iy)
           g0 == [terrain |-> terrain, scores |-> scores, blasts |-> <<>>]
           g1 == IF hitT THEN explode(g0, ix, iy) ELSE g0
           near == FirstNear(s)
           g2 == IF near # 0
                 THEN [explode(g1, ix, iy)
                         EXCEPT !.scores[Credited(near)] = @ + DIRECT_BONUS]
                 ELSE g1
           alive == s.alive /\ ~hitT /\ near = 0
       IN  /\ terrain' = g2.terrain
           /\ scores' = g2.scores
           /\ IF ~alive
              THEN /\ turn' = NextTurn(turn)
                   /\ shell' = NoShell
                   /\ p1' = OnGround(p1, terrain')
                   /\ p2' = OnGround(p2, terrain')
                   /\ last' = [by |-> turn, terrainHit |-> hitT,
                               direct |-> near,
                               bonusTo |-> IF near # 0 THEN Credited(near)
                                           ELSE 0,
                               blasts |-> g2.blasts]
              ELSE /\ shell' = s
                   /\ UNCHANGED <<turn, p1, p2, last>>
           /\ UNCHANGED <<wind, ai_for_p2, shots, aimChanges>>
  ELSE /\ IF ai_for_p2 /\ turn = 2
          THEN shots < MaxShots /\ simple_ai_fire
          ELSE UNCHANGED <<p2, shell, shots>>
       /\ UNCHANGED <<terrain, wind, p1, turn, ai_for_p2, scores, last,
                      aimChanges>>

\* ---------- Game.handle_input (lines 221-240) ----------
HeldKeys == {"K_LEFT", "K_RIGHT", "K_UP", "K_DOWN", "K_a", "K_d", "K_w", "K_s"}

\* the clamped nudges of lines 225-240
AngleDown(a) == Max(ANGLE_MIN, a - ANGLE_STEP)

\* a faulty nudge: min(85, ...) missing
AngleUpUnclamped(a) == a + ANGLE_STEP

AngleUp(a) == Min(ANGLE_MAX, a + ANGLE_STEP)

PowerUp(p) == Min(POWER_MAX, p + POWER_STEP)

PowerDown(p) == Max(POWER_MIN, p - POWER_STEP)

\* the turn == 1 branch (lines 224-231)
AimP1(t, keys) ==
  LET a1 == IF "K_LEFT" \in keys THEN AngleDown(t.angle) ELSE t.angle
      a2 == IF "K_RIGHT" \in keys THEN AngleUp(a1) ELSE a1
      w1 == IF "K_UP" \in keys THEN PowerUp(t.power) ELSE t.power
      w2 == IF "K_DOWN" \in keys THEN PowerDown(w1) ELSE w1
  IN  [t EXCEPT !.angle = a2, !.power = w2]

\* the else branch (lines 233-240)
AimP2(t, keys) ==
  LET a1 == IF "K_a" \in keys THEN AngleUp(t.angle) ELSE t.angle
      a2 == IF "K_d" \in keys THEN AngleDown(a1) ELSE a1
      w1 == IF "K_w" \in keys THEN PowerUp(t.power) ELSE t.power
      w2 == IF "K_s" \in keys THEN PowerDown(w1) ELSE w1
  IN  [t EXCEPT !.angle = a2, !.power = w2]

\* a faulty handle_input: the turn test of line 223 missing, both key sets
\* act on every tick
handle_input_both_sides(keys) ==
  /\ p1' = AimP1(p1, keys)
  /\ p2' = AimP2(p2, keys)
  /\ aimChanges' = IF <<p1', p2'>> # <<p1, p2>> THEN aimChanges + 1
                   ELSE aimChanges
  /\ aimChanges' <= MaxAimChanges
  /\ UNCHANGED <<terrain, wind, turn, shell, ai_for_p2, scores, last, shots>>

handle_input(keys) ==
  /\ IF turn = 1
     THEN p1' = AimP1(p1, keys) /\ UNCHANGED p2
     ELSE p2' = AimP2(p2, keys) /\ UNCHANGED p1
  /\ aimChanges' = IF <<p1', p2'>> # <<p1, p2>> THEN aimChanges + 1
                   ELSE aimChanges
  /\ aimChanges' <= MaxAimChanges
  /\ UNCHANGED <<terrain, wind, turn, shell, ai_for_p2, scores, last, shots>>

\* ---------- Game.handle_event (lines 242-260) ----------
EventKeys == {"K_n", "K_r", "K_t", "K_SPACE", "K_LCTRL"}

\* the side a fire key belongs to
FireSide(k) == IF k = "K_SPACE" THEN 1 ELSE 2

\* a faulty K_r branch: it calls reset-style code that redraws the wind
handle_event_r_redraws_wind(k) ==
  /\ UNCHANGED <<last, aimChanges>>
  /\ CASE k = "K_n" ->
            /\ reset_round(TRUE)
            /\ UNCHANGED <<ai_for_p2, shots>>
       [] k = "K_r" ->
            /\ regen_terrain_only
            /\ wind' \in Winds
            /\ UNCHANGED <<turn, shell, ai_for_p2, scores, shots>>
       [] k = "K_t" ->
            /\ ai_for_p2' = ~ai_for_p2
            /\ UNCHANGED <<terrain, wind, p1, p2, turn, shell, scores, shots>>
       [] OTHER ->
            IF CanFire(FireSide(k))
            THEN /\ shots < MaxShots
                 /\ shell' = spawn_shell(IF FireSide(k) = 1 THEN p1 ELSE p2)
                 /\ shots' = shots + 1
                 /\ UNCHANGED <<terrain, wind, p1, p2, turn, ai_for_p2, scores>>
            ELSE UNCHANGED <<terrain, wind, p1, p2, turn, shell, ai_for_p2,
                             scores, shots>>

handle_event(k) ==
  /\ UNCHANGED <<last, aimChanges>>
  /\ CASE k = "K_n" ->
            /\ reset_round(TRUE)
            /\ UNCHANGED <<ai_for_p2, shots>>
       [] k = "K_r" ->
            /\ regen_terrain_only
            /\ UNCHANGED <<wind, turn, shell, ai_for_p2, scores, shots>>
       [] k = "K_t" ->
            /\ ai_for_p2' = ~ai_for_p2
            /\ UNCHANGED <<terrain, wind, p1, p2, turn, shell, scores, shots>>
       [] OTHER ->
            IF CanFire(FireSide(k))
            THEN /\ shots < MaxShots
                 /\ shell' = spawn_shell(IF FireSide(k) = 1 THEN p1 ELSE p2)
                 /\ shots' = shots + 1
                 /\ UNCHANGED <<terrain, wind, p1, p2, turn, ai_for_p2, scores>>
            ELSE UNCHANGED <<terrain, wind, p1, p2, turn, shell, ai_for_p2,
                             scores, shots>>

\* ---------- Game.run (lines 298-305) ----------
KeyEvent == \E k \in EventKeys : handle_event(k)

\* pygame.key.get_pressed(): the sets of held keys explored
KeySets == {{}, {"K_DOWN"}, {"K_a"}, HeldKeys}

HeldInput == \E keys \in KeySets : handle_input(keys)

Tick == update

Next == KeyEvent \/ HeldInput \/ Tick

Spec == Init /\ [][Next]_vars


\* ---------- properties ----------
\* a live shell is in flight
Live == ~shell.none /\ shell.alive

\* update with a shell in flight (lines 161-178), each value of the tick
\* computed once: the same steps as Live /\ update
FlightTick ==
  /\ Live
  /\ \E s \in {step(shell, wind)} :
     \E ix \in {Trunc(s.x, UNIT)}, iy \in {Trunc(s.y, UNIT)} :
     \E hitT \in {/\ 0 <= ix /\ ix < WIDTH /\ 0 <= iy /\ iy < HEIGHT
                   /\ collides(terrain, ix, iy)} :
     \E near \in {FirstNear(s)} :
     \E g0 \in {[terrain |-> terrain, scores |-> scores, blasts |-> <<>>]} :
     \E g1 \in {IF hitT THEN explode(g0, ix, iy) ELSE g0} :
     \E g2 \in {IF near # 0
                 THEN [explode(g1, ix, iy)
                         EXCEPT !.scores[Credited(near)] = @ + DIRECT_BONUS]
                 ELSE g1} :
       /\ terrain' = g2.terrain
       /\ scores' = g2.scores
       /\ IF ~(s.alive /\ ~hitT /\ near = 0)
          THEN /\ turn' = NextTurn(turn)
               /\ shell' = NoShell
               /\ p1' = OnGround(p1, terrain')
               /\ p2' = OnGround(p2, terrain')
               /\ last' = [by |-> turn, terrainHit |-> hitT,
                           direct |-> near,
                           bonusTo |-> IF near # 0 THEN Credited(near)
                                       ELSE 0,
                           blasts |-> g2.blasts]
          ELSE /\ shell' = s
               /\ UNCHANGED <<turn, p1, p2, last>>
       /\ UNCHANGED <<wind, ai_for_p2, shots, aimChanges>>

\* The frames in which a shell is resolved.  run() calls update() once per
\* frame for as long as the window is open (lines 298-305), so the update of
\* a shell in flight is not postponed forever.  Key presses are the players'
\* choice and carry no fairness.  Held keys (handle_input) write only the
\* angle and power of a tank, which a shell reads once, when it is spawned:
\* the flights explored here start from the aims of Init and of the AI.
FairNext == KeyEvent \/ Tick

FairSpec == Init /\ [][FairNext]_vars /\ WF_vars(FlightTick)

\* FlightTick takes exactly the steps of update with a shell in flight
FlightTickIsUpdate == [][(Live /\ update) <=> FlightTick]_vars

FireKeys == {"K_SPACE", "K_LCTRL"}

\* C1 as claimed: the turn owner changes only in an update tick in which the
\* live shell dies, and never otherwise.
C1_TurnChangesOnlyOnShellDeath ==
  [][turn' # turn => Live /\ shell'.none /\ update]_vars

\* C1, amended: the turn owner changes only in an update tick in which the
\* live shell dies or by the new-match key, which sets it to side 1; the
\* tick in which a shell dies hands the turn to the other side, once; a tick
\* that leaves the shell alive leaves the turn owner alone.
C1_TurnFlipsOncePerResolution ==
  [][/\ turn' # turn =>
          \/ Live /\ shell'.none /\ update
          \/ handle_event("K_n") /\ turn' = 1
     /\ Live /\ shell'.none /\ update => turn' \in Sides \ {turn}
     /\ Live /\ Live' => turn' = turn]_vars

\* a shell of side 1 has died and the turn went to side 2
C1_Witness == turn = 2 /\ shell.none /\ last.by = 1 /\ shots = 1

\* C2: a shell is spawned only when no shell is live, by a fire key or by the
\* AI; a live shell is only advanced by step, or removed.
C2_OneShellAtATime ==
  [][/\ shots' # shots => ~Live /\ shell' \in {spawn_shell(p1'), spawn_shell(p2')}
     /\ Live => /\ shots' = shots
                /\ shell' \in {shell, NoShell, step(shell, wind)}]_vars

\* the second shell of a run is in flight
C2_Witness == Live /\ shots = 2

\* C3: a fire key pressed while a shell is live or out of turn changes
\* nothing of the match; pressed by the turn owner with no shell live, it
\* spawns the shell of that side's tank and changes nothing else.
C3_FireKey ==
  [][\A k \in FireKeys :
       handle_event(k) =>
         LET side == IF k = "K_SPACE" THEN 1 ELSE 2
             tank == IF side = 1 THEN p1 ELSE p2
         IN  IF ~Live /\ turn = side
             THEN /\ shell' = spawn_shell(tank)
                  /\ UNCHANGED <<terrain, wind, p1, p2, turn, scores>>
             ELSE UNCHANGED <<terrain, wind, p1, p2, turn, shell, scores>>]_vars

\* side 2's fire key has spawned its tank's shell
C3_Witness == turn = 2 /\ shell = spawn_shell(p2) /\ ~ai_for_p2

\* C4 as claimed: the 30 points go to the side that fired, and only for the
\* shell coming near the other side's tank; coming near the firing side's own
\* tank awards nothing to the opponent.
C4_DirectBonusToFirer ==
  last.bonusTo # 0 => last.bonusTo = last.by /\ last.direct # last.by

\* C5 as claimed: an update tick whose shell hits terrain resolves exactly one
\* explosion and awards no 30-point direct-hit bonus.
C5_TerrainHitOneBlast ==
  last.terrainHit => Len(last.blasts) = 1 /\ last.bonusTo = 0

\* C6: every explosion adds its bonus to the firing side only and for the
\* other side's tank only: with d the distance of that tank's torso point,
\* the bonus is the integer part of 40 * (1 - d / 28) when d < 28 and 0
\* otherwise, so it lies in 0..40.
C6_BlastBonus ==
  \A n \in 1..Len(last.blasts) :
    LET b == last.blasts[n]
        other == IF b.by = 1 THEN 2 ELSE 1
        d2 == b.d2[other]
        g == b.gain[b.by]
    IN  /\ b.gain[other] = 0
        /\ g \in 0..40
        /\ IF d2 < 28 * 28
           THEN /\ 40 * 40 * d2 <= 28 * 28 * (40 - g) * (40 - g)
                /\ g < 40 => 40 * 40 * d2 > 28 * 28 * (39 - g) * (39 - g)
           ELSE g = 0

\* an explosion in reach of the other side's tank has paid a bonus
C6_Witness ==
  \E n \in 1..Len(last.blasts) :
    LET b == last.blasts[n]
    IN  b.gain[b.by] > 0 /\ b.gain[b.by] < 40

\* C7: no step lowers a score.
C7_ScoresNeverDecrease ==
  [][scores'[1] >= scores[1] /\ scores'[2] >= scores[2]]_vars

\* a new match has begun with points on the board
C7_Witness ==
  scores[1] > 0 /\ terrain.craters = {} /\ turn = 1 /\ last.by = 1 /\ shots = 1

\* C8: the R key leaves the scores, the turn owner and both aims alone and
\* puts each tank on the ground of the new terrain.
C8_RegenKeepsMatch ==
  [][handle_event("K_r") =>
       /\ scores' = scores
       /\ turn' = turn
       /\ p1'.angle = p1.angle /\ p1'.power = p1.power
       /\ p2'.angle = p2.angle /\ p2'.power = p2.power
       /\ p1'.y_ground = ground_y_at(terrain', p1'.x)
       /\ p2'.y_ground = ground_y_at(terrain', p2'.x)]_vars

\* the terrain has been regenerated over a crater, in side 2's turn
C8_Witness ==
  /\ last.blasts # <<>>
  /\ last # NoLog
  /\ terrain.craters = {}
  /\ turn = 2
  /\ scores[1] > 0

\* C9: after the N key there is no shell, side 1 owns the turn, both tanks
\* are alive and on the ground of the new terrain, and the wind is within
\* [-WIND_MAX, WIND_MAX].
C9_NewMatch ==
  [][handle_event("K_n") =>
       /\ shell'.none
       /\ turn' = 1
       /\ p1'.alive /\ p2'.alive
       /\ p1'.y_ground = ground_y_at(terrain', p1'.x)
       /\ p2'.y_ground = ground_y_at(terrain', p2'.x)
       /\ wind' \in (-WIND_MAX)..WIND_MAX]_vars

\* the new match removed side 2's shell in flight
C9_Witness ==
  shots = 2 /\ shell.none /\ turn = 1 /\ terrain.craters = {} /\ last.by = 1

AIReady == ai_for_p2 /\ turn = 2 /\ shell.none

\* C11: whenever an update tick is to run the AI (AI on, side 2's turn, no
\* shell), every draw of the power and of the ten candidate angles ends with
\* a candidate chosen, never with None; and a shot spawned there is a live
\* shell of side 2's tank at its aim, which, when the step changed it, is a
\* sampled angle and power.
C11_AIAlwaysFires ==
  /\ [](AIReady =>
         \A power \in AIPowers :
           \A dist \in {{<<a, AIDist(a, power)>> : a \in AIAngles}} :
             \A cands \in [1..AI_SAMPLES -> AIAngles] :
               AIPick(cands, dist, 1, [angle |-> 0, dist |-> 0]).angle
                 \in {cands[n] : n \in 1..AI_SAMPLES})
  /\ [][AIReady /\ shots' # shots =>
          /\ Live'
          /\ shell' = spawn_shell(p2')
          /\ p2' # p2 => p2'.angle \in AIAngles /\ p2'.power \in AIPowers]_vars

\* the AI has fired side 2's shell at a sampled aim
C11_Witness ==
  /\ ai_for_p2 /\ turn = 2 /\ Live
  /\ p2.angle \in AIAngles /\ p2.power \in AIPowers
  /\ shell = spawn_shell(p2)

\* C12: for every draw of the power and of the ten candidate angles the
\* angle chosen is a sampled one whose simulated landing is nearest to side
\* 1's x, and no candidate sampled before its first occurrence lands as
\* near; when all ten draws are the same angle, that angle is chosen.  The
\* step in which the AI fires writes the chosen angle and the shared power
\* to side 2's tank, nothing else of it, and spawns the shell at that aim.
C12_AIPicksNearest ==
  /\ [](AIReady =>
         \A power \in AIPowers :
           \A dist \in {{<<a, AIDist(a, power)>> : a \in AIAngles}} :
             \A cands \in [1..AI_SAMPLES -> AIAngles] :
               \A best \in {AIPick(cands, dist, 1, [angle |-> 0, dist |-> 0])} :
                 /\ <<best.angle, best.dist>> \in dist
                 /\ \E n \in 1..AI_SAMPLES : cands[n] = best.angle
                 /\ \A m \in 1..AI_SAMPLES :
                      \A p \in dist :
                        p[1] = cands[m] =>
                          /\ p[2] >= best.dist
                          /\ p[2] = best.dist =>
                               \E j \in 1..m : cands[j] = best.angle)
  /\ [][AIReady /\ shots' # shots /\ p2' # p2 =>
          /\ p2' = [p2 EXCEPT !.angle = p2'.angle, !.power = p2'.power]
          /\ p2'.angle \in AIAngles
          /\ p2'.power \in AIPowers
          /\ shell' = spawn_shell(p2')]_vars

\* the AI has fired at the nearer-landing of the two angles it can sample
C12_Witness ==
  /\ ai_for_p2 /\ turn = 2 /\ Live /\ shots = 2
  /\ p2.angle \in AIAngles /\ p2.power \in AIPowers
  /\ shell.vx = spawn_shell(p2).vx

\* C13: the wind lies in [-WIND_MAX, WIND_MAX], and only the N key changes
\* it.
C13_WindConstant ==
  /\ [](wind \in (-WIND_MAX)..WIND_MAX)
  /\ [][wind' # wind => handle_event("K_n")]_vars

\* two shells, the second planned by the AI, have flown and died and the
\* terrain has been regenerated since
C13_Witness ==
  /\ wind = WIND_MAX
  /\ shots = 2 /\ last.by = 2 /\ shell.none
  /\ p2.angle \in AIAngles
  /\ last.blasts # <<>> /\ terrain.craters = {}

\* the cells within reach cells of (x, y), on the surface
CellsAround(x, y, reach) ==
  {c \in ((x - reach)..(x + reach)) \X ((y - reach)..(y + reach)) :
     c[1] \in 0..(WIDTH - 1) /\ c[2] \in 0..(HEIGHT - 1)}

\* C14: a step that changes the terrain without generate() (neither the N
\* nor the R key) only removes material: in no column does the ground rise,
\* and no cell around a new crater goes from empty to solid.
C14_CarveOnlyRemoves ==
  [][terrain' # terrain /\ ~handle_event("K_n") /\ ~handle_event("K_r") =>
       /\ \A x \in 0..(WIDTH - 1) :
            ground_y_at(terrain', x) >= ground_y_at(terrain, x)
       /\ \A k \in terrain'.craters \ terrain.craters :
            \A c \in CellsAround(k[1], k[2], k[3] + 2) :
              Solid(terrain', c[1], c[2]) => Solid(terrain, c[1], c[2])]_vars

\* a second crater has been carved into a terrain that had one
C14_Witness == \E k1, k2 \in terrain.craters : k1 # k2

\* C15: each tank's stored ground row is the ground row of its column on
\* the current terrain.
C15_TanksOnGround ==
  /\ p1.y_ground = ground_y_at(terrain, p1.x)
  /\ p2.y_ground = ground_y_at(terrain, p2.x)

\* a crater has been carved under side 2's tank, which sank with the ground
C15_Witness ==
  /\ \E k \in terrain.craters : InCrater(k, p2.x, SkyY(terrain.jit, p2.x))
  /\ p2.y_ground > SkyY(terrain.jit, p2.x)

\* C16: a step that changes a tank's angle or power starts in that tank's
\* side's turn.
C16_AimOnlyForTurnOwner ==
  [][/\ (p1'.angle # p1.angle \/ p1'.power # p1.power) => turn = 1
     /\ (p2'.angle # p2.angle \/ p2'.power # p2.power) => turn = 2]_vars

\* the held keys have moved side 2's aim in side 2's turn, side 1's aim
\* being as it was
C16_Witness ==
  /\ turn = 2 /\ aimChanges = 1
  /\ p2.angle \notin AIAngles \cup {a[1] : a \in P2Aims}
  /\ <<p1.angle, p1.power>> \in P1Aims

\* C17: the shell slot is empty or holds a live shell, so 'not self.shell'
\* fails exactly when 'self.shell and self.shell.alive' holds.
C17_NoDeadShellKept ==
  /\ shell.none \/ shell.alive
  /\ ~shell.none <=> Live

\* a shell that left the bounds, dead after its step, has been cleared
C17_Witness ==
  last.by # 0 /\ ~last.terrainHit /\ last.direct = 0 /\ shell.none

\* C18: a live shell appears only by a spawn; a spawn is from the tank of the
\* side whose turn it is and leaves the turn alone; and while the shell stays
\* alive no shell is spawned and the turn owner does not change.  So the turn
\* owner is the side that fired for as long as a shell is alive.
C18_TurnOwnerFired ==
  [][/\ ~Live /\ Live' => shots' # shots
     /\ shots' # shots =>
          /\ turn' = turn
          /\ shell' = spawn_shell(IF turn = 1 THEN p1' ELSE p2')
     /\ Live /\ Live' => shots' = shots /\ turn' = turn]_vars

\* side 2's shell is in flight over a terrain regenerated since the last
\* explosion
C18_Witness ==
  /\ Live /\ turn = 2 /\ shell # spawn_shell(p2)
  /\ last.blasts # <<>> /\ terrain.craters = {}

\* C20: both tanks are alive.
C20_TanksAlive == p1.alive /\ p2.alive

\* a shell has come within the hit radius of side 2's tank and paid the
\* direct-hit bonus
C20_Witness == last.direct = 2 /\ last.by = 1 /\ scores[1] >= DIRECT_BONUS

\* C19 as claimed: every fired shell eventually dies and the turn passes from
\* the side that fired it to the other side.
C19_AsClaimed ==
  \A s \in Sides : (Live /\ turn = s) ~> (shell.none /\ turn = NextTurn(s))

\* C19: while update ticks keep occurring no shell stays in flight forever;
\* a shell leaves flight either in an update tick that passes the turn to the
\* other side, or because the N key starts a new match and discards it.
C19_ShellResolved ==
  /\ Live ~> shell.none
  /\ [][Live /\ shell'.none =>
          \/ update /\ turn' = NextTurn(turn)
          \/ handle_event("K_n")]_vars

\* side 1's shell has come down on the terrain and side 2 has the turn
C19_Witness ==
  /\ last.by = 1 /\ last.terrainHit /\ last.direct = 0
  /\ shell.none /\ turn = 2 /\ ~ai_for_p2

====
